---- MODULE Spec2Model ----
(***************************************************************************)
(* Model of junos_upgrade.py: the upgrade orchestration of main(), the     *)
(* session helpers connect_device / probe_device and the device operations *)
(* check_image_on_device, copy_image_to_device, install_image and          *)
(* verify_version.                                                         *)
(*                                                                         *)
(* The PyEZ library (Device, SW, FS) is the environment.  Every remote     *)
(* call made inside the orchestration sequence (the try body of main and   *)
(* the helpers it calls) either returns one of its possible results or     *)
(* raises; the choice is an existential input of the action that makes    *)
(* the call.  A Device carries the attribute `connected`: open() sets it,  *)
(* a close() that returns clears it, and after a close() that raises the   *)
(* library may have left it either way.  The cleanup close() of the        *)
(* finally block is modelled as performing the close.                      *)
(*                                                                         *)
(* Time is the integer clock `now`; it advances only in time.sleep.        *)
(***************************************************************************)
EXTENDS Integers, Sequences, FiniteSets, TLC

\* ---------------------------------------------------------------- bounds
MaxLen == 2          \* longest version string / prefix explored
MaxTimeout == 21     \* largest reboot-wait timeout explored

\* ------------------------------------------------------ program constants
GraceInterval == 720 \* time.sleep(720) before probing
PollInterval == 10   \* time.sleep(10) inside probe_device

\* ------------------------------------------------------------ value sets
Chars == {1, 2}

RECURSIVE StringsUpTo(_)
StringsUpTo(n) ==
    IF n = 0 THEN {<<>>}
    ELSE LET S == StringsUpTo(n - 1)
         IN  S \cup {Append(s, c) : s \in {t \in S : Len(t) = n - 1}, c \in Chars}

Versions == StringsUpTo(MaxLen)

\* argparse takes any int: a negative timeout is a possible input
Timeouts == (-1)..MaxTimeout

Names == {"junos.tgz", "junos.tgz.bak"}
NoName == "<no name>"
Entries == Names \cup {NoName}

\* sessions: 1 is the Device made by connect_device, 2 the one made by
\* probe_device; 0 stands for None
Sessions == {1, 2}
NoDev == 0

\* str.startswith
StartsWith(s, p) ==
    /\ Len(p) <= Len(s)
    /\ \A i \in 1..Len(p) : s[i] = p[i]

\* dev.facts.get('version'): raises, yields None, or yields a string
FactsResults ==
    {[kind |-> "raise", val |-> <<>>], [kind |-> "none", val |-> <<>>]}
      \cup {[kind |-> "str", val |-> v] : v \in Versions}
Unread == [kind |-> "unread", val |-> <<>>]

\* fs.ls(remote_path): raises RpcError, raises another error, yields a
\* result without 'files', or yields a result with a 'files' list
LsResults ==
    {[kind |-> k, files |-> {}] : k \in {"RpcError", "Exception", "nofiles"}}
      \cup {[kind |-> "files", files |-> F] : F \in SUBSET Entries}
NoLs == [kind |-> "unset", files |-> {}]

VARIABLES
    pc,               \* position of the run
    dev,              \* main's local `dev`
    ret,              \* value connect_device / probe_device is returning
    open,             \* open[s]: the session of Device s is established
    connected,        \* connected[s]: Device s's attribute `connected`
    opens,            \* opens[s]: successful dev.open() calls on s
    closes,           \* closes[s]: dev.close() calls on s
    expected_version, \* config['expected_version']
    image_name,       \* config['image_name']
    timeout,          \* config['timeout']
    current_version,  \* what the pre-upgrade facts read gave
    post_version,     \* what the facts read in verify_version gave
    ls_result,        \* what fs.ls gave
    image_exists,     \* main's local `image_exists` (FALSE before the check)
    copy_invoked,     \* calls of copy_image_to_device
    copy_calls,       \* calls of sw.safe_copy
    copy_result,      \* how sw.safe_copy ended ("unset" when not called)
    local_exists,     \* os.path.exists(full_local_path) (FALSE before the copy)
    install_calls,    \* calls of sw.install
    install_result,   \* how sw.install ended ("unset" when not called)
    reboot_calls,     \* calls of sw.reboot
    now,              \* time.time()
    probe_start,      \* time at which probe_device was entered (-1 before)
    deadline,         \* probe_device's local `deadline`
    attempts,         \* dev.open() attempts made by probe_device
    probe_errors,     \* the kinds of error probe_device's attempts raised
    retval,           \* value main() is returning (-1: none yet)
    exit_code,        \* process exit code (-1: still running)
    outcome,          \* which terminal branch the run took
    pending,          \* the error on its way to main's handler ("none" if none)
    raised,           \* the operations that raised an unexpected error
    connect_attempts, \* dev.open() attempts made by connect_device
    close_time,       \* time of the dev.close() call of line 277 (-1 before)
    grace_end,        \* time at which the sleep of line 281 returned (-1 before)
    config,           \* load_config's dict `config` (string-valued keys)
    cfg_step,         \* load_config: index of the next key of the dict literal
    cfg_timeout,      \* load_config: config['timeout']
    cfg_paths         \* load_config: the two joined paths

cfgVars == <<expected_version, image_name, timeout>>
sessVars == <<open, connected, opens, closes>>
stageVars == <<ls_result, image_exists, copy_invoked, copy_calls, copy_result, local_exists>>
instVars == <<install_calls, install_result, reboot_calls>>
probeVars == <<probe_start, deadline, attempts, probe_errors>>
verVars == <<current_version, post_version>>
endVars == <<retval, exit_code, outcome>>
errVars == <<pending, raised>>
timeVars == <<connect_attempts, close_time, grace_end>>
loadVars == <<config, cfg_step, cfg_timeout, cfg_paths>>

vars == <<pc, dev, ret, cfgVars, sessVars, stageVars, instVars, probeVars,
          verVars, now, endVars, errVars, timeVars, loadVars>>

\* ------------------------------------------------------------ load_config
\* load_config is modelled on its own, from the command line and the
\* environment to the returned dict (SpecCfg); the runs of main start from
\* a loaded configuration, held in expected_version, image_name, timeout.

NoneV == "<None>"
Unset == "<unset>"

\* the keys of the dict literal of lines 78-85, in order
Keys == <<"host", "user", "password", "image_name", "local_image_dir",
          "remote_path", "expected_version">>
KeySet == {Keys[i] : i \in 1..Len(Keys)}

\* a command-line option: not given (None), given empty, given
ArgVals == {NoneV, "", "x"}
\* an environment variable: not set, set empty, set
EnvVals == {NoneV, "", "x"}

\* parser.add_argument('-t', ..., type=int, default=720)
DefaultTimeout == 720
TimeoutArgs == {-1, 0, DefaultTimeout}

\* the second argument of os.getenv on lines 84 and 85
EnvDefault(k) ==
    CASE k = "remote_path" -> "/var/tmp/usb"
      [] k = "expected_version" -> "24.2R2.18"
      [] OTHER -> NoneV

\* os.getenv(name, default): the default only when the variable is not set
GetEnv(e, default) == IF e = NoneV THEN default ELSE e

\* Python's `a or b`: b when a is None or empty
PyOr(a, b) == IF a \in {NoneV, ""} THEN b ELSE a

\* lines 79-85: one entry of the dict literal
ConfigValue(k, a, e) == PyOr(a, GetEnv(e, EnvDefault(k)))

\* line 90: the keys reported missing
Missing(c) == {k \in KeySet \ {"password"} : c[k] = NoneV}

ConfigUnset == [k \in KeySet |-> Unset]

Init ==
    /\ pc = "connect"
    /\ dev = NoDev
    /\ ret = NoDev
    /\ open = [s \in Sessions |-> FALSE]
    /\ connected = [s \in Sessions |-> FALSE]
    /\ opens = [s \in Sessions |-> 0]
    /\ closes = [s \in Sessions |-> 0]
    /\ expected_version \in Versions
    /\ image_name \in Names
    /\ timeout \in Timeouts
    /\ current_version = Unread
    /\ post_version = Unread
    /\ ls_result = NoLs
    /\ image_exists = FALSE
    /\ copy_invoked = 0
    /\ copy_calls = 0
    /\ copy_result = "unset"
    /\ local_exists = FALSE
    /\ install_calls = 0
    /\ install_result = "unset"
    /\ reboot_calls = 0
    /\ now = 0
    /\ probe_start = -1
    /\ deadline = 0
    /\ attempts = 0
    /\ probe_errors = {}
    /\ retval = -1
    /\ exit_code = -1
    /\ outcome = "none"
    /\ pending = "none"
    /\ raised = {}
    /\ connect_attempts = 0
    /\ close_time = -1
    /\ grace_end = -1
    /\ config = ConfigUnset
    /\ cfg_step = 0
    /\ cfg_timeout = 0
    /\ cfg_paths = <<>>

\* ------------------------------------------------------- session helpers

\* Device(...).open() succeeding on Device s
DoOpen(s) ==
    /\ open' = [open EXCEPT ![s] = TRUE]
    /\ connected' = [connected EXCEPT ![s] = TRUE]
    /\ opens' = [opens EXCEPT ![s] = @ + 1]
    /\ UNCHANGED closes

\* dev.close() returning on Device s
DoClose(s) ==
    /\ open' = [open EXCEPT ![s] = FALSE]
    /\ connected' = [connected EXCEPT ![s] = FALSE]
    /\ closes' = [closes EXCEPT ![s] = @ + 1]
    /\ UNCHANGED opens

\* connect_device: one attempt, no retry; both handlers return None
connect_device ==
    /\ pc = "connect"
    /\ connect_attempts' = connect_attempts + 1
    /\ \E r \in {"ok", "ConnectError", "Exception"} :
         IF r = "ok"
         THEN DoOpen(1) /\ ret' = 1
         ELSE UNCHANGED sessVars /\ ret' = NoDev
    /\ pc' = "connect_ret"
    /\ UNCHANGED <<dev, cfgVars, stageVars, instVars, probeVars, verVars, now, endVars>>
    /\ UNCHANGED errVars
    /\ UNCHANGED <<close_time, grace_end>>
    /\ UNCHANGED loadVars

\* faulty variant of MainConnected: a failed connection is tried again
MainConnectedRetry ==
    /\ pc = "connect_ret"
    /\ dev' = ret
    /\ IF ret = NoDev
       THEN /\ pc' = "connect"
            /\ UNCHANGED endVars
       ELSE /\ pc' = "facts"
            /\ UNCHANGED endVars
    /\ ret' = NoDev
    /\ UNCHANGED <<cfgVars, sessVars, stageVars, instVars, probeVars, verVars, now>>
    /\ UNCHANGED errVars
    /\ UNCHANGED timeVars
    /\ UNCHANGED loadVars

\* main, lines 254-257: dev = connect_device(...); if not dev: return 1
MainConnected ==
    /\ pc = "connect_ret"
    /\ dev' = ret
    /\ IF ret = NoDev
       THEN /\ pc' = "done"
            /\ retval' = 1
            /\ exit_code' = 1
            /\ outcome' = "ConnectionFailed"
       ELSE /\ pc' = "facts"
            /\ UNCHANGED endVars
    /\ ret' = NoDev
    /\ UNCHANGED <<cfgVars, sessVars, stageVars, instVars, probeVars, verVars, now>>
    /\ UNCHANGED errVars
    /\ UNCHANGED timeVars
    /\ UNCHANGED loadVars

\* faulty variant of AlreadyCurrent: equality instead of a prefix match
AlreadyCurrentEq(version, prefix) == version = prefix

\* main, line 263: current_version.startswith(config['expected_version'])
AlreadyCurrent(version, prefix) == StartsWith(version, prefix)

\* main, lines 259-265: read the version, stop when it is already the
\* expected one.  A missing version is None, whose .startswith raises.
MainCheckVersion ==
    /\ pc = "facts"
    /\ \E r \in FactsResults :
         /\ current_version' = r
         /\ IF r.kind # "str"
            THEN /\ pc' = "except"
                 /\ pending' = IF r.kind = "raise" THEN "Exception" ELSE "AttributeError"
                 /\ raised' = raised \cup {"facts"}
                 /\ UNCHANGED endVars
            ELSE IF AlreadyCurrent(r.val, expected_version)
            THEN /\ pc' = "finally"
                 /\ retval' = 0
                 /\ outcome' = "AlreadyUpToDate"
                 /\ UNCHANGED <<exit_code, errVars>>
            ELSE pc' = "check_image" /\ UNCHANGED <<endVars, errVars>>
    /\ UNCHANGED <<dev, ret, cfgVars, sessVars, stageVars, instVars, probeVars,
                   post_version, now>>
    /\ UNCHANGED timeVars
    /\ UNCHANGED loadVars

\* faulty variant of ImageListed: the entries are compared with the full
\* remote path, which no entry name equals
ImageListedByPath(ls, name) == FALSE

\* check_image_on_device, lines 149-160: the value returned for a listing
\* that fs.ls returned
ImageListed(ls, name) ==
    IF ls.kind # "files" THEN FALSE
    ELSE \E file_entry \in ls.files : file_entry = name

\* faulty variant of LsCaught: the handler is missing
LsCaughtNothing(kind) == FALSE

\* check_image_on_device, line 161: except RpcError
LsCaught(kind) == kind = "RpcError"

\* check_image_on_device as called at line 267: an RpcError is caught and
\* gives False, any other error propagates to main's handler
MainCheckImage ==
    /\ pc = "check_image"
    /\ \E ls \in LsResults :
         /\ ls_result' = ls
         /\ IF ls.kind \in {"RpcError", "Exception"} /\ ~LsCaught(ls.kind)
            THEN /\ pc' = "except"
                 /\ pending' = ls.kind
                 /\ raised' = raised \cup {"ls"}
                 /\ UNCHANGED image_exists
            ELSE LET found == IF ls.kind \in {"RpcError", "Exception"} THEN FALSE
                              ELSE ImageListed(ls, image_name)
                 IN  /\ image_exists' = found
                     /\ pc' = IF found THEN "install" ELSE "copy"
                     /\ UNCHANGED errVars
    /\ UNCHANGED <<dev, ret, cfgVars, sessVars, copy_invoked, copy_calls, copy_result,
                   local_exists, instVars, probeVars, verVars, now, endVars>>
    /\ UNCHANGED timeVars
    /\ UNCHANGED loadVars

\* faulty variant of CopyResult: the result of the copy is ignored
CopyResultIgnored(exists, r) == TRUE

\* faulty variant of CopyResult: an error raised by sw.safe_copy is swallowed
\* and the copy is taken to have succeeded
CopyResultSwallow(exists, r) == exists /\ r # "fail"

\* copy_image_to_device, lines 171-194: False without a remote call when
\* the local file is missing, else the result of sw.safe_copy, False when
\* it raises
CopyResult(exists, r) == exists /\ r = "ok"

\* main, lines 268-272
MainCopy ==
    /\ pc = "copy"
    /\ \E exists \in BOOLEAN, r \in {"ok", "fail", "raise"} :
         /\ local_exists' = exists
         /\ copy_invoked' = copy_invoked + 1
         /\ copy_calls' = IF exists THEN copy_calls + 1 ELSE copy_calls
         /\ copy_result' = IF exists THEN r ELSE "unset"
         /\ raised' = IF exists /\ r = "raise" THEN raised \cup {"copy"} ELSE raised
         /\ IF CopyResult(exists, r)
            THEN pc' = "install" /\ UNCHANGED endVars
            ELSE /\ pc' = "finally"
                 /\ retval' = 1
                 /\ outcome' = "ImageCopyFailed"
                 /\ UNCHANGED exit_code
    /\ UNCHANGED <<dev, ret, cfgVars, sessVars, ls_result, image_exists, instVars,
                   probeVars, verVars, now>>
    /\ UNCHANGED pending
    /\ UNCHANGED timeVars
    /\ UNCHANGED loadVars

\* faulty variant of RebootRequested: the reboot is left out
RebootRequestedNever(inst) == FALSE

\* faulty variant of RebootRequested: the reboot is requested whenever
\* sw.install returned, whatever it returned
RebootRequestedAnyResult(inst) == inst # "raise"

\* install_image, lines 216-226: sw.reboot() is called exactly when
\* sw.install returned ok
RebootRequested(inst) == inst = "ok"

\* install_image, lines 202-226: True only when sw.install returned ok and
\* sw.reboot() returned; every error is caught and gives False
InstallResult(inst, rb) == inst = "ok" /\ rb = "ok"

\* main, lines 275 and 301-305, with the whole of install_image
MainInstall ==
    /\ pc = "install"
    /\ \E inst \in {"ok", "fail", "raise"}, rb \in {"ok", "raise"} :
         /\ install_calls' = install_calls + 1
         /\ install_result' = inst
         /\ raised' = raised \cup (IF inst = "raise" THEN {"install"} ELSE {})
                         \cup (IF RebootRequested(inst) /\ rb = "raise"
                               THEN {"reboot"} ELSE {})
         /\ reboot_calls' = IF RebootRequested(inst) THEN reboot_calls + 1
                            ELSE reboot_calls
         /\ IF InstallResult(inst, rb)
            THEN pc' = "close_pre" /\ UNCHANGED endVars
            ELSE /\ pc' = "finally"
                 /\ retval' = 1
                 /\ outcome' = "InstallFailed"
                 /\ UNCHANGED exit_code
    /\ UNCHANGED <<dev, ret, cfgVars, sessVars, stageVars, probeVars, verVars, now>>
    /\ UNCHANGED pending
    /\ UNCHANGED timeVars
    /\ UNCHANGED loadVars

\* main, line 277: dev.close() before the reboot.  When it raises, the
\* session stays established and `connected` is whatever the library left.
MainClosePre ==
    /\ pc = "close_pre"
    /\ close_time' = now
    /\ \/ /\ DoClose(dev)
          /\ pc' = "grace"
          /\ UNCHANGED errVars
       \/ /\ closes' = [closes EXCEPT ![dev] = @ + 1]
          /\ \E c \in BOOLEAN : connected' = [connected EXCEPT ![dev] = c]
          /\ UNCHANGED <<open, opens>>
          /\ pc' = "except"
          /\ pending' = "Exception"
          /\ raised' = raised \cup {"close"}
    /\ UNCHANGED <<dev, ret, cfgVars, stageVars, instVars, probeVars, verVars, now, endVars>>
    /\ UNCHANGED <<connect_attempts, grace_end>>
    /\ UNCHANGED loadVars

\* faulty variant of MainGrace: the sleep lasts the 120 of the comment on
\* line 281
MainGraceShort ==
    /\ pc = "grace"
    /\ now' = now + 120
    /\ grace_end' = now + 120
    /\ pc' = "probe"
    /\ UNCHANGED <<dev, ret, cfgVars, sessVars, stageVars, instVars, probeVars, verVars, endVars>>
    /\ UNCHANGED errVars
    /\ UNCHANGED <<connect_attempts, close_time>>
    /\ UNCHANGED loadVars

\* main, line 281: time.sleep(720)
MainGrace ==
    /\ pc = "grace"
    /\ now' = now + GraceInterval
    /\ grace_end' = now + GraceInterval
    /\ pc' = "probe"
    /\ UNCHANGED <<dev, ret, cfgVars, sessVars, stageVars, instVars, probeVars, verVars, endVars>>
    /\ UNCHANGED errVars
    /\ UNCHANGED <<connect_attempts, close_time>>
    /\ UNCHANGED loadVars

\* faulty variant of ProbeDeadline: the timeout is taken as the deadline
ProbeDeadlineNoClock(t, tmo) == tmo

\* probe_device, line 125: deadline = time.time() + timeout
ProbeDeadline(t, tmo) == t + tmo

\* faulty variant of ProbeContinue: the deadline itself still counts
ProbeContinueInclusive(t, dl) == t <= dl

\* probe_device, line 127: the loop condition
ProbeContinue(t, dl) == t < dl

\* probe_device, lines 124-125: entry
ProbeEnter ==
    /\ pc = "probe"
    /\ probe_start' = now
    /\ deadline' = ProbeDeadline(now, timeout)
    /\ pc' = "probe_loop"
    /\ UNCHANGED <<dev, ret, cfgVars, sessVars, stageVars, instVars, attempts,
                   probe_errors, verVars, now, endVars>>
    /\ UNCHANGED errVars
    /\ UNCHANGED timeVars
    /\ UNCHANGED loadVars

\* probe_device, lines 127 and 139-140: loop test; past the deadline the
\* function returns None
ProbeTest ==
    /\ pc = "probe_loop"
    /\ IF ProbeContinue(now, deadline)
       THEN pc' = "probe_attempt" /\ UNCHANGED ret
       ELSE pc' = "probe_ret" /\ ret' = NoDev
    /\ UNCHANGED <<dev, cfgVars, sessVars, stageVars, instVars, probeVars, verVars,
                   now, endVars>>
    /\ UNCHANGED errVars
    /\ UNCHANGED timeVars
    /\ UNCHANGED loadVars

\* faulty variant of AfterAttempt: the handlers go straight back to the loop
\* test, skipping the sleep
AfterAttemptNoSleep(r) == IF r = "ok" THEN "probe_ret" ELSE "probe_loop"

\* faulty variant of AfterAttempt: an unexpected error ends the loop
AfterAttemptAbort(r) == IF r = "ConnectError" THEN "probe_sleep" ELSE "probe_ret"

\* probe_device, lines 128-136: where the loop goes after an attempt that
\* ended as r
AfterAttempt(r) == IF r = "ok" THEN "probe_ret" ELSE "probe_sleep"

\* the count of attempts stops at a value no run of probe_device reaches
AttemptCap == MaxTimeout \div PollInterval + 2

\* probe_device, lines 128-136: one attempt; both handlers fall through to
\* the sleep
ProbeAttempt ==
    /\ pc = "probe_attempt"
    /\ \E r \in {"ok", "ConnectError", "Exception"} :
         /\ attempts' = IF attempts < AttemptCap THEN attempts + 1 ELSE attempts
         /\ IF r = "ok"
            THEN DoOpen(2) /\ ret' = 2 /\ UNCHANGED probe_errors
            ELSE UNCHANGED <<sessVars, ret>> /\ probe_errors' = probe_errors \cup {r}
         /\ pc' = AfterAttempt(r)
    /\ UNCHANGED <<dev, cfgVars, stageVars, instVars, probe_start, deadline, verVars,
                   now, endVars>>
    /\ UNCHANGED errVars
    /\ UNCHANGED timeVars
    /\ UNCHANGED loadVars

\* probe_device, line 137: time.sleep(10)
ProbeSleep ==
    /\ pc = "probe_sleep"
    /\ now' = now + PollInterval
    /\ pc' = "probe_loop"
    /\ UNCHANGED <<dev, ret, cfgVars, sessVars, stageVars, instVars, probeVars,
                   verVars, endVars>>
    /\ UNCHANGED errVars
    /\ UNCHANGED timeVars
    /\ UNCHANGED loadVars

\* faulty variant of MainProbed: the result of probe_device is tested but
\* `dev` keeps naming the pre-upgrade Device
MainProbedKeepsDev ==
    /\ pc = "probe_ret"
    /\ dev' = dev
    /\ IF ret = NoDev
       THEN /\ pc' = "finally"
            /\ retval' = 1
            /\ outcome' = "RebootTimedOut"
            /\ UNCHANGED exit_code
       ELSE pc' = "verify" /\ UNCHANGED endVars
    /\ ret' = NoDev
    /\ UNCHANGED <<cfgVars, sessVars, stageVars, instVars, probeVars, verVars, now>>
    /\ UNCHANGED errVars
    /\ UNCHANGED timeVars
    /\ UNCHANGED loadVars

\* main, lines 283-284 and 296-300: dev = probe_device(...); if dev: ...
MainProbed ==
    /\ pc = "probe_ret"
    /\ dev' = ret
    /\ IF ret = NoDev
       THEN /\ pc' = "finally"
            /\ retval' = 1
            /\ outcome' = "RebootTimedOut"
            /\ UNCHANGED exit_code
       ELSE pc' = "verify" /\ UNCHANGED endVars
    /\ ret' = NoDev
    /\ UNCHANGED <<cfgVars, sessVars, stageVars, instVars, probeVars, verVars, now>>
    /\ UNCHANGED errVars
    /\ UNCHANGED timeVars
    /\ UNCHANGED loadVars

\* faulty variant of VersionToVerify: the pre-upgrade snapshot is compared
VersionToVerifyStale(fresh, snapshot) == snapshot

\* verify_version, line 231: the version compared is the one read from the
\* Device passed in, not main's current_version
VersionToVerify(fresh, snapshot) == fresh

\* faulty variant of VerifyResult: any version string read is accepted
VerifyResultAny(r, prefix) == r.kind = "str"

\* verify_version, lines 230-242: a read that raises, or gives None (whose
\* .startswith raises), gives False
VerifyResult(r, prefix) ==
    r.kind = "str" /\ StartsWith(r.val, prefix)

\* main, lines 286-295, with the whole of verify_version
MainVerify ==
    /\ pc = "verify"
    /\ \E r \in FactsResults :
         /\ post_version' = r
         /\ raised' = IF r.kind = "str" THEN raised ELSE raised \cup {"verify"}
         /\ IF VerifyResult(VersionToVerify(r, current_version), expected_version)
            THEN retval' = 0 /\ outcome' = "Success"
            ELSE retval' = 1 /\ outcome' = "VersionMismatch"
    /\ pc' = "finally"
    /\ UNCHANGED <<dev, ret, cfgVars, sessVars, stageVars, instVars, probeVars,
                   current_version, now, exit_code>>
    /\ UNCHANGED pending
    /\ UNCHANGED timeVars
    /\ UNCHANGED loadVars

\* faulty variant of ExceptCatches: the handler names RpcError only
ExceptCatchesRpcOnly(err) == err = "RpcError"

\* main, line 306: except Exception catches every error a remote operation
\* raises and the AttributeError of None.startswith, not KeyboardInterrupt
ExceptCatches(err) == err \in {"Exception", "RpcError", "ConnectError", "AttributeError"}

\* main, lines 306-311: the handler of the try body; an error it does not
\* catch goes on through the finally block and out of main
MainExcept ==
    /\ pc = "except"
    /\ IF ExceptCatches(pending)
       THEN retval' = 1 /\ outcome' = "UnexpectedError"
       ELSE retval' = -1 /\ outcome' = "Propagated"
    /\ pending' = "none"
    /\ UNCHANGED raised
    /\ pc' = "finally"
    /\ UNCHANGED <<dev, ret, cfgVars, sessVars, stageVars, instVars, probeVars,
                   verVars, now, exit_code>>
    /\ UNCHANGED timeVars
    /\ UNCHANGED loadVars

\* main, line 314: dev and hasattr(dev, 'connected') and dev.connected
NeedsClose(d) == d # NoDev /\ connected[d]

\* main, lines 312-316: the cleanup
Cleanup ==
    IF NeedsClose(dev) THEN DoClose(dev) ELSE UNCHANGED sessVars

\* main, lines 312-316, and lines 320-321: sys.exit(main()); an error that
\* leaves main ends the interpreter with status 1
MainFinally ==
    /\ pc = "finally"
    /\ Cleanup
    /\ exit_code' = IF outcome = "Propagated" THEN 1 ELSE retval
    /\ pc' = "done"
    /\ UNCHANGED <<dev, ret, cfgVars, stageVars, instVars, probeVars, verVars, now,
                   retval, outcome>>
    /\ UNCHANGED errVars
    /\ UNCHANGED timeVars
    /\ UNCHANGED loadVars

\* the positions inside main's try statement, where the finally block runs
\* on the way out
InTry == pc \in {"facts", "check_image", "copy", "install", "close_pre", "grace",
                 "probe", "probe_loop", "probe_attempt", "probe_sleep",
                 "probe_ret", "verify", "except", "finally"}

\* lines 319-326: a KeyboardInterrupt raised at the current position
\* unwinds through main's finally block when inside the try statement and
\* is turned into exit code 1
Interrupt ==
    /\ pc # "done"
    /\ IF InTry THEN Cleanup ELSE UNCHANGED sessVars
    /\ retval' = -1
    /\ exit_code' = 1
    /\ outcome' = "Interrupted"
    /\ pc' = "done"
    /\ UNCHANGED <<dev, ret, cfgVars, stageVars, instVars, probeVars, verVars, now>>
    /\ UNCHANGED errVars
    /\ UNCHANGED timeVars
    /\ UNCHANGED loadVars

Next ==
    \/ connect_device
    \/ MainConnected
    \/ MainCheckVersion
    \/ MainCheckImage
    \/ MainCopy
    \/ MainInstall
    \/ MainClosePre
    \/ MainGrace
    \/ ProbeEnter
    \/ ProbeTest
    \/ ProbeAttempt
    \/ ProbeSleep
    \/ MainProbed
    \/ MainVerify
    \/ MainExcept
    \/ MainFinally

Spec == Init /\ [][Next]_vars

\* the runs in which every step that can be taken is eventually taken: the
\* program is one thread, time advances and every remote call returns or
\* raises
\* Termination does not depend on the configured prefix and image name:
\* they are fixed here, every timeout and every answer of the device is kept.
InitLive == Init /\ expected_version = <<1>> /\ image_name = "junos.tgz"

SpecLive == InitLive /\ [][Next]_vars /\ WF_vars(Next)

\* the same runs with an operator interrupt possible at every position
NextInt == Next \/ Interrupt

SpecInt == Init /\ [][NextInt]_vars

\* ------------------------------------------------- load_config, continued
runVars == <<dev, ret, cfgVars, sessVars, stageVars, instVars, probeVars, verVars,
             now, errVars, timeVars>>

InitCfg ==
    /\ pc = "load_config"
    /\ config = ConfigUnset
    /\ cfg_step = 1
    /\ cfg_timeout = 0
    /\ cfg_paths = <<>>
    /\ dev = NoDev
    /\ ret = NoDev
    /\ open = [s \in Sessions |-> FALSE]
    /\ connected = [s \in Sessions |-> FALSE]
    /\ opens = [s \in Sessions |-> 0]
    /\ closes = [s \in Sessions |-> 0]
    /\ expected_version = <<>>
    /\ image_name = "junos.tgz"
    /\ timeout = 0
    /\ current_version = Unread
    /\ post_version = Unread
    /\ ls_result = NoLs
    /\ image_exists = FALSE
    /\ copy_invoked = 0
    /\ copy_calls = 0
    /\ copy_result = "unset"
    /\ local_exists = FALSE
    /\ install_calls = 0
    /\ install_result = "unset"
    /\ reboot_calls = 0
    /\ now = 0
    /\ probe_start = -1
    /\ deadline = 0
    /\ attempts = 0
    /\ probe_errors = {}
    /\ retval = -1
    /\ exit_code = -1
    /\ outcome = "none"
    /\ pending = "none"
    /\ raised = {}
    /\ connect_attempts = 0
    /\ close_time = -1
    /\ grace_end = -1

\* load_config, lines 79-85: the next entry of the dict literal, for any
\* state of its command-line option and of its environment variable
CfgResolve ==
    /\ pc = "load_config"
    /\ cfg_step <= Len(Keys)
    /\ \E a \in ArgVals, e \in EnvVals :
         config' = [config EXCEPT ![Keys[cfg_step]] = ConfigValue(Keys[cfg_step], a, e)]
    /\ cfg_step' = cfg_step + 1
    /\ UNCHANGED <<pc, cfg_timeout, cfg_paths, runVars, endVars>>

\* load_config, line 86: 'timeout': args.timeout
CfgTimeout ==
    /\ pc = "load_config"
    /\ cfg_step = Len(Keys) + 1
    /\ cfg_timeout' \in TimeoutArgs
    /\ pc' = "cfg_validate"
    /\ UNCHANGED <<config, cfg_step, cfg_paths, runVars, endVars>>

\* load_config, lines 90-94: sys.exit(1) when a key other than the password
\* is None
CfgValidate ==
    /\ pc = "cfg_validate"
    /\ IF Missing(config) # {}
       THEN pc' = "cfg_exit" /\ exit_code' = 1
       ELSE pc' = "cfg_password" /\ UNCHANGED exit_code
    /\ UNCHANGED <<loadVars, runVars, retval, outcome>>

\* load_config, lines 97-105: prompt for a password that is None or empty,
\* join the paths, return
CfgReturn ==
    /\ pc = "cfg_password"
    /\ IF config["password"] \in {NoneV, ""}
       THEN \E typed \in {"", "x"} : config' = [config EXCEPT !["password"] = typed]
       ELSE UNCHANGED config
    /\ cfg_paths' = << <<config["local_image_dir"], config["image_name"]>>,
                       <<config["remote_path"], config["image_name"]>> >>
    /\ pc' = "cfg_returned"
    /\ UNCHANGED <<cfg_step, cfg_timeout, runVars, endVars>>

NextCfg == CfgResolve \/ CfgTimeout \/ CfgValidate \/ CfgReturn

SpecCfg == InitCfg /\ [][NextCfg]_vars

\* ================================================================ claims

\* the pre-upgrade read gave a version string that starts with the prefix
PreMatched ==
    /\ current_version.kind = "str"
    /\ StartsWith(current_version.val, expected_version)

\* the post-reboot read gave a version string that starts with the prefix
PostMatched ==
    /\ post_version.kind = "str"
    /\ StartsWith(post_version.val, expected_version)

\* C1: when the pre-upgrade session opened and the version read from it
\* starts with the expected prefix, copy_image_to_device, sw.safe_copy,
\* sw.install, sw.reboot and probe_device are never called and the run ends
\* with exit code 0.
C1_UpToDateShortCircuit ==
    PreMatched =>
        /\ copy_invoked = 0 /\ copy_calls = 0
        /\ install_calls = 0 /\ reboot_calls = 0
        /\ attempts = 0 /\ probe_start = -1
        /\ pc \in {"facts", "finally", "done"}
        /\ pc = "done" => exit_code = 0

C1_Witness ==
    /\ pc = "done" /\ PreMatched /\ exit_code = 0
    /\ Len(current_version.val) > Len(expected_version)
    /\ Len(expected_version) > 0

\* C2 (as claimed): every session that was opened gets exactly one close
\* call: never more close calls than opens, and at the end of main as many,
\* with no session left established.
C2_CloseExactlyOnce ==
    /\ \A s \in Sessions : closes[s] <= opens[s]
    /\ pc = "done" => \A s \in Sessions : closes[s] = opens[s] /\ ~open[s]

\* C3: whenever sw.install reported success, sw.reboot was called by the
\* same install_image call, also when that reboot call raised; no state,
\* terminal or not, has the image installed and no reboot requested.
C3_InstallRebootCoupled ==
    install_result = "ok" => reboot_calls = 1

C3_Witness ==
    /\ pc = "done" /\ install_result = "ok" /\ reboot_calls = 1
    /\ outcome = "InstallFailed"

\* the listing returned by fs.ls has an entry named exactly image_name
ListedExactly == ls_result.kind = "files" /\ image_name \in ls_result.files

\* C4: when the remote listing has an entry whose name equals the image
\* name, copy_image_to_device is never called and the step after the check
\* is the install.
C4_ListedImageNotCopied ==
    ListedExactly =>
        /\ copy_invoked = 0 /\ copy_calls = 0
        /\ pc # "copy"
        /\ pc # "install" => install_calls = 1

C4_Witness ==
    /\ ListedExactly /\ pc = "done" /\ install_calls = 1 /\ copy_invoked = 0
    /\ Cardinality(ls_result.files) > 1

\* C5: probe_device with timeout T >= 0 whose every attempt failed returns
\* None no earlier than T and no later than T + PollInterval after it was
\* entered.
C5_ProbeFailureTime ==
    (pc = "probe_ret" /\ ret = NoDev /\ timeout >= 0) =>
        /\ now >= probe_start + timeout
        /\ now <= probe_start + timeout + PollInterval

C5_Witness ==
    /\ pc = "probe_ret" /\ ret = NoDev /\ attempts >= 2
    /\ now > probe_start + timeout

\* C6: in probe_device a failed attempt, whether it raised ConnectError or
\* any other error, never ends the loop: it is followed by the sleep and
\* the loop test, which leads to another attempt as long as the deadline
\* (entry time + timeout) has not been reached; a successful attempt
\* returns the session it opened; None is returned only at or after the
\* deadline.
C6_ProbeKeepsPolling ==
    [][ /\ (pc = "probe_attempt" /\ opens'[2] = opens[2]) => pc' = "probe_sleep"
        /\ pc = "probe_sleep" => (pc' = "probe_loop" /\ now' = now + PollInterval)
        /\ (pc = "probe_loop" /\ now < probe_start + timeout) => pc' = "probe_attempt"
        /\ (pc = "probe_attempt" /\ opens'[2] > opens[2]) =>
               (pc' = "probe_ret" /\ ret' = 2 /\ open'[2])
        /\ (pc = "probe_loop" /\ pc' = "probe_ret") =>
               (ret' = NoDev /\ now' >= probe_start + timeout)
        /\ (pc' = "probe_ret" /\ ret' = NoDev) => pc = "probe_loop"
      ]_vars

C6_Witness ==
    /\ pc = "probe_ret" /\ ret = 2 /\ open[2]
    /\ probe_errors = {"ConnectError", "Exception"}

\* C7: the exit code is 0 exactly when the run was not interrupted and
\* either the pre-upgrade version matched the prefix, or the install
\* succeeded, probe_device reconnected and the post-reboot version matched
\* the prefix; these are the runs ending AlreadyUpToDate or Success, and
\* every other terminal run, an interrupted one included, exits with 1.
C7_ExitCode ==
    pc = "done" =>
        /\ exit_code \in {0, 1}
        /\ exit_code = 0 <=>
             /\ outcome # "Interrupted"
             /\ \/ PreMatched
                \/ install_result = "ok" /\ opens[2] = 1 /\ PostMatched
        /\ exit_code = 0 <=> outcome \in {"AlreadyUpToDate", "Success"}
        /\ outcome \in {"AlreadyUpToDate", "Success", "ConnectionFailed",
                        "ImageCopyFailed", "InstallFailed", "RebootTimedOut",
                        "VersionMismatch", "UnexpectedError", "Interrupted"}

C7_Witness ==
    /\ pc = "done" /\ exit_code = 0 /\ outcome = "Success"
    /\ copy_result = "ok" /\ attempts >= 2

\* copy_image_to_device was called and did not succeed: the local file was
\* missing, or sw.safe_copy returned false or raised
CopyFailed ==
    /\ copy_invoked = 1
    /\ ~local_exists \/ copy_result \in {"fail", "raise"}

\* C8: when the image is not found on the device and the copy fails (local
\* file missing, sw.safe_copy false or raising), the run ends with exit
\* code 1 as ImageCopyFailed, sw.install and sw.reboot are never called and
\* the session is closed before main returns.
C8_CopyFailureAborts ==
    CopyFailed =>
        /\ ~image_exists
        /\ install_calls = 0 /\ reboot_calls = 0
        /\ pc \in {"finally", "done"}
        /\ outcome = "ImageCopyFailed" /\ retval = 1
        /\ pc = "done" => exit_code = 1 /\ closes[1] = 1 /\ ~open[1]

C8_Witness ==
    /\ pc = "done" /\ CopyFailed /\ copy_result = "raise" /\ closes[1] = 1

C8_WitnessLocalMissing ==
    /\ pc = "done" /\ CopyFailed /\ ~local_exists /\ copy_calls = 0

\* C9: when sw.install returns failure or raises, the run ends with exit
\* code 1 as InstallFailed, and no reboot request, grace wait or probe
\* follows; a reboot request is made only in a run whose sw.install call
\* returned success.
C9_InstallFailureAborts ==
    /\ install_result \in {"fail", "raise"} =>
           /\ reboot_calls = 0
           /\ now = 0 /\ probe_start = -1 /\ attempts = 0
           /\ pc \in {"finally", "done"}
           /\ outcome = "InstallFailed" /\ retval = 1
           /\ pc = "done" => exit_code = 1
    /\ reboot_calls > 0 => install_result = "ok"

C9_Witness ==
    pc = "done" /\ install_result = "fail" /\ exit_code = 1 /\ copy_result = "ok"

\* C10: after probe_device reconnected, the outcome follows the version
\* read from the reconnected session alone: Success with exit code 0 when
\* it starts with the prefix, VersionMismatch with exit code 1 otherwise;
\* the run is then over and the reconnected session has been closed.
C10_VerifyFreshVersion ==
    (pc = "done" /\ opens[2] = 1) =>
        /\ ~PreMatched
        /\ PostMatched => (outcome = "Success" /\ exit_code = 0)
        /\ ~PostMatched => (outcome = "VersionMismatch" /\ exit_code = 1)
        /\ dev = 2 /\ closes[2] = 1 /\ ~open[2] /\ ~connected[2]

C10_Witness ==
    /\ pc = "done" /\ opens[2] = 1 /\ PostMatched /\ exit_code = 0
    /\ current_version.kind = "str" /\ post_version # current_version

C11_WitnessReboot ==
    pc = "done" /\ "reboot" \in raised /\ exit_code = 1

\* C12: every run reaches the end of main, with an outcome, and the
\* outcome once set is never replaced by another, for every timeout and
\* every behaviour of the device, a connector that never succeeds included.
C12_Terminates ==
    /\ <>(pc = "done" /\ outcome # "none" /\ exit_code \in {0, 1})
    /\ [][outcome # "none" => outcome' = outcome]_vars

C12_Witness ==
    /\ pc = "done" /\ outcome = "RebootTimedOut" /\ attempts >= 2
    /\ probe_errors = {"ConnectError", "Exception"}

\* C13 (as claimed): an interrupted run ends with exit code 1 and with no
\* session left established, whatever the position of the interrupt.
C13_InterruptClosesSession ==
    (pc = "done" /\ outcome = "Interrupted") =>
        /\ exit_code = 1
        /\ \A s \in Sessions : ~open[s]

\* C14: a listing that fails with an RpcError, or comes back without a
\* 'files' collection, counts as "image not present": it is not handed to
\* main's error handler and the next step is the copy.
C14_ListingFailureTolerated ==
    ls_result.kind \in {"RpcError", "nofiles"} =>
        /\ ~image_exists
        /\ "ls" \notin raised
        /\ pc = "copy" \/ copy_invoked = 1

C14_Witness ==
    /\ ls_result.kind = "RpcError" /\ pc = "done"
    /\ copy_result = "ok" /\ outcome = "Success"

\* C15: connect_device makes exactly one connection attempt; when it fails
\* the run ends as ConnectionFailed with exit code 1 and no other remote
\* operation; copy, install and reboot are each called at most once.
C15_NoRetry ==
    /\ connect_attempts <= 1
    /\ pc # "connect" => connect_attempts = 1
    /\ copy_invoked <= 1 /\ copy_calls <= 1
    /\ install_calls <= 1 /\ reboot_calls <= 1
    /\ (pc # "connect" /\ opens[1] = 0) =>
          /\ pc \in {"connect_ret", "done"}
          /\ pc = "done" => (outcome = "ConnectionFailed" /\ exit_code = 1)
          /\ current_version = Unread /\ ls_result = NoLs
          /\ copy_invoked = 0 /\ install_calls = 0 /\ reboot_calls = 0
          /\ attempts = 0 /\ closes = [s \in Sessions |-> 0]

C15_Witness ==
    pc = "done" /\ outcome = "ConnectionFailed" /\ connect_attempts = 1

C15_WitnessOnce ==
    pc = "done" /\ copy_calls = 1 /\ install_calls = 1 /\ reboot_calls = 1

C18_OneSessionAtATime ==
    /\ ~(open[1] /\ open[2])
    /\ opens[1] <= 1 /\ opens[2] <= 1
    /\ opens[2] > 0 => (closes[1] >= 1 /\ ~open[1])
    /\ pc \in {"facts", "check_image", "copy", "install", "close_pre"} =>
           (dev = 1 /\ open[1])
    /\ pc = "verify" => (dev = 2 /\ open[2])
    /\ (pc = "finally" /\ NeedsClose(dev)) => open[dev]

C18_Witness ==
    pc = "verify" /\ dev = 2 /\ open[2] /\ ~open[1] /\ closes[1] = 1

\* C19: sw.install is called only when the listing had an entry named
\* exactly image_name or copy_image_to_device returned True (local file
\* present and sw.safe_copy returned a true result).
C19_InstallOnlyWhenStaged ==
    (pc = "install" \/ install_calls > 0) =>
        \/ ListedExactly /\ copy_invoked = 0
        \/ /\ ~ListedExactly /\ ls_result # NoLs
           /\ copy_invoked = 1 /\ local_exists /\ copy_result = "ok"

C19_Witness ==
    /\ pc = "done" /\ install_calls = 1 /\ ls_result.kind = "files"
    /\ ~ListedExactly /\ copy_result = "ok"

\* C20: when every attempt fails (attempts taking no time), probe_device
\* makes exactly ceil(T / 10) attempts for T > 0 and none for T <= 0; in the
\* latter case the run ends as RebootTimedOut without one attempt.
C20_AttemptCount ==
    /\ (pc = "probe_ret" /\ ret = NoDev) =>
          attempts = IF timeout > 0
                     THEN (timeout + PollInterval - 1) \div PollInterval
                     ELSE 0
    /\ (timeout <= 0 /\ probe_start # -1) =>
          /\ attempts = 0 /\ opens[2] = 0
          /\ pc \in {"probe_loop", "probe_ret", "finally", "done"}
          /\ pc \in {"finally", "done"} => outcome = "RebootTimedOut"

C20_Witness ==
    /\ pc = "done" /\ outcome = "RebootTimedOut"
    /\ timeout > 2 * PollInterval /\ attempts = 3

C20_WitnessNoAttempt ==
    pc = "done" /\ outcome = "RebootTimedOut" /\ timeout = 0 /\ attempts = 0

\* C17 (as claimed): a configuration returned by load_config has every
\* field other than the password present and non-empty, and a password
\* that is not None.
C17_ConfigNonEmpty ==
    pc = "cfg_returned" =>
        /\ \A k \in KeySet \ {"password"} : config[k] \notin {NoneV, "", Unset}
        /\ config["password"] \notin {NoneV, Unset}
====
